---- MODULE Spec2Model ----
(***************************************************************************)
(* Smart-recommendation pipeline of the tour recommendation service:       *)
(* context derivation, tiered candidate selection, scoring, rank & select, *)
(* reason generation (app/services/recommendation_service.py) and the      *)
(* HTTP handler around it (app/routers/recommendations.py).                *)
(***************************************************************************)
EXTENDS Integers, Sequences, FiniteSets, TLC

VARIABLES
    request,      \* SmartRecommendationRequest being served
    catalog,      \* rows of tour_info (set of tour records, ids unique)
    apiKey,       \* settings.openai_api_key is set
    pc,           \* position of the request in get_smart_recommendations
    ctx,          \* derived context (weather, time_of_day, season)
    queried,      \* tiers whose catalog query was executed, in order
    outcome,      \* per tier: "none" | "rows" | "empty" | "error"
    winner,       \* tier that supplied the candidates, 0 if none
    candidates,   \* candidate tour ids returned by _get_candidate_tours
    rankQueried,  \* the ranking query was executed
    ranked,       \* (tour, score) pairs after the sort
    finalTours,   \* tours selected by _rank_and_select_tours, in order
    recs,         \* recommendations_with_reasons built so far
    genCalls,     \* calls made to the external text generator
    cache,        \* cache_manager._memory_cache: key -> (value, expiry)
    calls,        \* completed calls of the cached reason function, in order
    proc,         \* per caller: its position inside the cached() wrapper
    now,          \* time.time(), in seconds
    raised,       \* exception that escaped the service: "none" or its origin
    response,     \* what the HTTP handler returned
    breakdown     \* sub-scores of the last _calculate_tour_score call

vars == << request, catalog, apiKey, pc, ctx, queried, outcome, winner,
           candidates, rankQueried, ranked, finalTours, recs, genCalls,
           cache, calls, proc, now, raised, response, breakdown >>

-----------------------------------------------------------------------------
(* Bounds of the model *)

MaxTours == 4
MaxLimit == 2

(* Program constants *)

Tier1RadiusKm == 10
Tier2RadiusKm == 30
Tier3RadiusKm == 10
ScoreCap == 100
DislikePenalty == 50

None == "none"

TourTypes == {"indoor", "outdoor", "both"}
TimesOfDay == {"morning", "afternoon", "evening", "night"}
Conditions == {"Rain", "Clear", "Clouds", "Snow"}

-----------------------------------------------------------------------------
(* The tour catalog: rows are drawn from a fixed table of tours; dist is    *)
(* geoDistance(request.lon, request.lat, long, lat) in meters; rating is in *)
(* tenths of a point, 0 when the row has no rating.                         *)

TourTable ==
    << [id |-> 1, dist |-> 3000, tour_type |-> "indoor",
        time_of_day_trip_type |-> {"morning", "afternoon"},
        category_name |-> "museum", pricing_range_usd |-> "0-50 USD",
        season |-> {"Winter"}, rating |-> 45],
       [id |-> 2, dist |-> 8000, tour_type |-> "outdoor",
        time_of_day_trip_type |-> {"morning", "night"},
        category_name |-> "nature", pricing_range_usd |-> "50-100 USD",
        season |-> {"Summer"}, rating |-> 45],
       [id |-> 3, dist |-> 15000, tour_type |-> "both",
        time_of_day_trip_type |-> {"morning", "afternoon", "night"},
        category_name |-> "museum", pricing_range_usd |-> "0-50 USD",
        season |-> {"Summer", "Winter"}, rating |-> 0],
       [id |-> 4, dist |-> 40000, tour_type |-> "indoor",
        time_of_day_trip_type |-> {"morning", "night"},
        category_name |-> "museum", pricing_range_usd |-> "0-50 USD",
        season |-> {"Christmas"}, rating |-> 40],
       [id |-> 5, dist |-> 5000, tour_type |-> "outdoor",
        time_of_day_trip_type |-> {"morning", "afternoon"},
        category_name |-> "nature", pricing_range_usd |-> "50-100 USD",
        season |-> {"Rainy"}, rating |-> 0],
       [id |-> 6, dist |-> 30000, tour_type |-> "both",
        time_of_day_trip_type |-> {"night"},
        category_name |-> "nature", pricing_range_usd |-> "0-50 USD",
        season |-> {}, rating |-> 45] >>

TourIds == 1 .. (IF MaxTours < Len(TourTable) THEN MaxTours ELSE Len(TourTable))

Universe == { TourTable[i] : i \in TourIds }

Ids(rows) == { t.id : t \in rows }

-----------------------------------------------------------------------------
(* Requests *)

NoPrefs == [given |-> FALSE, tour_type |-> None, category |-> None, price_range |-> None]

PrefsSet ==
    { NoPrefs,
      [given |-> TRUE, tour_type |-> "indoor", category |-> None, price_range |-> None],
      [given |-> TRUE, tour_type |-> "outdoor", category |-> "nature", price_range |-> None],
      [given |-> TRUE, tour_type |-> None, category |-> "museum", price_range |-> "0-50 USD"] }

AllPrefs ==
    [given |-> TRUE, tour_type |-> "indoor", category |-> "museum",
     price_range |-> "0-50 USD"]

NoFeedback == [given |-> FALSE, liked_tours |-> {}, disliked_tours |-> {}]

FeedbackSet ==
    { NoFeedback,
      [given |-> TRUE, liked_tours |-> {2}, disliked_tours |-> {}],
      [given |-> TRUE, liked_tours |-> {}, disliked_tours |-> {1}],
      [given |-> TRUE, liked_tours |-> {3}, disliked_tours |-> {1, 2}] }

PipelineHours == {4, 11}
PipelineMonths == {5}


LocSet ==
    { [lat |-> "given", lon |-> "given"],
      [lat |-> None, lon |-> None],
      [lat |-> "given", lon |-> None] }

Requests ==
    { [lat |-> l.lat, lon |-> l.lon, hour |-> h, month |-> m,
       preferences |-> p, feedback |-> f, limit |-> n] :
        l \in LocSet, h \in PipelineHours, m \in PipelineMonths,
        p \in PrefsSet, f \in FeedbackSet, n \in 1 .. MaxLimit }

HasLocation(req) == req.lat # None /\ req.lon # None

-----------------------------------------------------------------------------
(* Context Deriver *)

NoWeather == [present |-> FALSE, condition |-> None]

TimeOfDayOpenAtFive(hour) ==
    IF 5 < hour /\ hour < 12 THEN "morning"
    ELSE IF 12 <= hour /\ hour < 17 THEN "afternoon"
    ELSE IF 17 <= hour /\ hour < 21 THEN "evening"
    ELSE "night"

TimeOfDay(hour) ==
    IF 5 <= hour /\ hour < 12 THEN "morning"
    ELSE IF 12 <= hour /\ hour < 17 THEN "afternoon"
    ELSE IF 17 <= hour /\ hour < 21 THEN "evening"
    ELSE "night"

SeasonOf(month) ==
    IF month \in {12, 1, 2} THEN "Winter"
    ELSE IF month \in {3, 4, 5} THEN "Spring"
    ELSE IF month \in {6, 7, 8} THEN "Summer"
    ELSE "Autumn"

DerivedContext(req, weather) ==
    [weather |-> weather, time_of_day |-> TimeOfDay(req.hour), season |-> SeasonOf(req.month)]

-----------------------------------------------------------------------------
(* Candidate Selector: filters *)

BuildDistanceQuery(t, max_distance_km) == t.dist <= max_distance_km * 1000

\* _get_weather_filter constraining Rain and Clear only
WeatherFilterClearOnly(condition, t) ==
    IF condition = "Rain" THEN t.tour_type = "indoor"
    ELSE IF condition = "Clear" THEN t.tour_type \in {"outdoor", "both"}
    ELSE TRUE

WeatherFilter(condition, t) ==
    IF condition = "Rain" THEN t.tour_type = "indoor"
    ELSE IF condition \in {"Clear", "Clouds"} THEN t.tour_type \in {"outdoor", "both"}
    ELSE TRUE

\* _get_preferences_filter without the tour_type clause
PreferencesFilterNoType(prefs, t) ==
    prefs.given =>
        /\ prefs.category # None => t.category_name = prefs.category
        /\ prefs.price_range # None => t.pricing_range_usd = prefs.price_range

PreferencesFilter(prefs, t) ==
    prefs.given =>
        /\ prefs.tour_type # None => t.tour_type = prefs.tour_type
        /\ prefs.category # None => t.category_name = prefs.category
        /\ prefs.price_range # None => t.pricing_range_usd = prefs.price_range

FeedbackFilterOff(feedback, t) == TRUE

FeedbackFilter(feedback, t) ==
    (feedback.given /\ feedback.disliked_tours # {}) => t.id \notin feedback.disliked_tours

TimeFilter(c, t) == c.time_of_day \in t.time_of_day_trip_type

ContextFiltersWithSeason(t, req, c) ==
    /\ c.weather.present => WeatherFilter(c.weather.condition, t)
    /\ c.time_of_day \in t.time_of_day_trip_type
    /\ c.season \in t.season
    /\ PreferencesFilter(req.preferences, t)
    /\ FeedbackFilter(req.feedback, t)

ContextFilters(t, req, c) ==
    /\ c.weather.present => WeatherFilter(c.weather.condition, t)
    /\ TimeFilter(c, t)
    /\ PreferencesFilter(req.preferences, t)
    /\ FeedbackFilter(req.feedback, t)

Tier1MatchRadiusAlways(t, req, c) ==
    /\ BuildDistanceQuery(t, Tier1RadiusKm)
    /\ ContextFilters(t, req, c)

Tier1Match(t, req, c) ==
    /\ HasLocation(req) => BuildDistanceQuery(t, Tier1RadiusKm)
    /\ ContextFilters(t, req, c)

\* query 2 built without the time-of-day condition
Tier2MatchNoTime(t, req, c) ==
    /\ BuildDistanceQuery(t, Tier2RadiusKm)
    /\ c.weather.present => WeatherFilter(c.weather.condition, t)
    /\ PreferencesFilter(req.preferences, t)
    /\ FeedbackFilter(req.feedback, t)

Tier2Match(t, req, c) ==
    /\ BuildDistanceQuery(t, Tier2RadiusKm)
    /\ ContextFilters(t, req, c)

\* tier 3 keeping the feedback filter next to the radius
Tier3MatchNotDisliked(t, req, c) ==
    /\ BuildDistanceQuery(t, Tier3RadiusKm)
    /\ FeedbackFilter(req.feedback, t)

Tier3Match(t, req, c) == BuildDistanceQuery(t, Tier3RadiusKm)

TierMatch(k, t, req, c) ==
    IF k = 1 THEN Tier1Match(t, req, c)
    ELSE IF k = 2 THEN Tier2Match(t, req, c)
    ELSE Tier3Match(t, req, c)

\* client.execute of tier k's query on the rows `rows`: the ids selected
TierRows(k, rows, req, c) == { t.id : t \in { u \in rows : TierMatch(k, u, req, c) } }

-----------------------------------------------------------------------------
(* Tour Scorer *)

RatingThreshold == 40

DistanceScoreStrict(t, req) ==
    IF HasLocation(req)
    THEN IF t.dist < 5 * 1000 THEN 25
         ELSE IF t.dist < 10 * 1000 THEN 20
         ELSE IF t.dist < 20 * 1000 THEN 15
         ELSE IF t.dist < 50 * 1000 THEN 10
         ELSE 5
    ELSE 0

DistanceScore(t, req) ==
    IF HasLocation(req)
    THEN IF t.dist <= 5 * 1000 THEN 25
         ELSE IF t.dist <= 10 * 1000 THEN 20
         ELSE IF t.dist <= 20 * 1000 THEN 15
         ELSE IF t.dist <= 50 * 1000 THEN 10
         ELSE 5
    ELSE 0

\* the preference score with the three tests chained by elif
PreferenceScoreFirstMatch(t, req) ==
    LET p == req.preferences IN
    IF p.given
    THEN IF p.tour_type # None /\ t.tour_type = p.tour_type THEN 10
         ELSE IF p.category # None /\ t.category_name = p.category THEN 10
         ELSE IF p.price_range # None /\ t.pricing_range_usd = p.price_range THEN 10
         ELSE 0
    ELSE 0

PreferenceScore(t, req) ==
    LET p == req.preferences IN
    IF p.given
    THEN (IF p.tour_type # None /\ t.tour_type = p.tour_type THEN 10 ELSE 0)
       + (IF p.category # None /\ t.category_name = p.category THEN 10 ELSE 0)
       + (IF p.price_range # None /\ t.pricing_range_usd = p.price_range THEN 10 ELSE 0)
    ELSE 0

\* _get_weather_compatibility_score with the default table used for Rain too
WeatherCompatibilityScoreDefault(t, w) ==
    IF t.tour_type = "indoor" THEN 10
    ELSE IF t.tour_type = "outdoor" THEN 8
    ELSE IF t.tour_type = "both" THEN 12
    ELSE 5

\* w is request._weather_context; it is set only when the context has weather
WeatherCompatibilityScore(t, w) ==
    IF ~w.present
    THEN IF t.tour_type = "indoor" THEN 10
         ELSE IF t.tour_type = "outdoor" THEN 8
         ELSE IF t.tour_type = "both" THEN 12
         ELSE 5
    ELSE IF w.condition = "Rain"
    THEN IF t.tour_type = "indoor" THEN 15
         ELSE IF t.tour_type = "both" THEN 12
         ELSE 5
    ELSE IF w.condition \in {"Clear", "Clouds"}
    THEN IF t.tour_type = "outdoor" THEN 15
         ELSE IF t.tour_type = "both" THEN 12
         ELSE 8
    ELSE IF t.tour_type = "both" THEN 12
         ELSE IF t.tour_type = "indoor" THEN 10
         ELSE 8

\* the scorer's bucket with the morning starting at six
CurrentTimeFromSix(hour) ==
    IF 6 <= hour /\ hour < 12 THEN "morning"
    ELSE IF 12 <= hour /\ hour < 17 THEN "afternoon"
    ELSE IF 17 <= hour /\ hour < 21 THEN "evening"
    ELSE "night"

CurrentTime(hour) ==
    IF 5 <= hour /\ hour < 12 THEN "morning"
    ELSE IF 12 <= hour /\ hour < 17 THEN "afternoon"
    ELSE IF 17 <= hour /\ hour < 21 THEN "evening"
    ELSE "night"

\* _get_time_compatibility_score giving 10 to any tour that lists some time
TimeCompatibilityScoreAnyListed(t, req) ==
    IF CurrentTime(req.hour) \in t.time_of_day_trip_type THEN 15
    ELSE IF t.time_of_day_trip_type # {} THEN 10
    ELSE 5

TimeCompatibilityScore(t, req) ==
    IF CurrentTime(req.hour) \in t.time_of_day_trip_type THEN 15
    ELSE IF t.time_of_day_trip_type \cap {"morning", "afternoon", "evening", "night"} # {} THEN 10
    ELSE 5

\* the liked tours' categories as they would be if loaded from the catalog
LikedTourCategoriesLoaded == {"museum", "nature"}

\* the categories and types of the liked tours are never loaded
LikedTourCategories == {}
LikedTourTypes == {}

\* _get_feedback_score without the disliked-tour branch
FeedbackScoreNoPenalty(t, req) == 0

FeedbackScore(t, req) ==
    LET f == req.feedback IN
    IF f.given
    THEN IF f.disliked_tours # {} /\ t.id \in f.disliked_tours
         THEN 0 - DislikePenalty
         ELSE IF f.liked_tours # {}
              THEN (IF t.category_name \in LikedTourCategories THEN 10 ELSE 0)
                 + (IF t.tour_type \in LikedTourTypes THEN 5 ELSE 0)
              ELSE 0
    ELSE 0

\* a NULL rating (modelled as a negative one) makes `rating > 4.0` raise
ScoringRaises(t) == t.rating < 0

\* the rating bonus raised to 25 points
QualityScoreLarge(t) == IF t.rating > RatingThreshold THEN 25 ELSE 0

QualityScore(t) == IF t.rating > RatingThreshold THEN 5 ELSE 0

Min(a, b) == IF a <= b THEN a ELSE b

SubScores(t, req, w) ==
    [distance |-> DistanceScore(t, req),
     preference |-> PreferenceScore(t, req),
     weather |-> WeatherCompatibilityScore(t, w),
     time |-> TimeCompatibilityScore(t, req),
     feedback |-> FeedbackScore(t, req),
     quality |-> QualityScore(t)]

SumOf(b) == b.distance + b.preference + b.weather + b.time + b.feedback + b.quality

CalculateTourScoreFloored(t, req, w) ==
    LET s == Min(SumOf(SubScores(t, req, w)), ScoreCap) IN IF s < 0 THEN 0 ELSE s

CalculateTourScore(t, req, w) == Min(SumOf(SubScores(t, req, w)), ScoreCap)

\* the sub-scores of one _calculate_tour_score call and its result
Breakdown(t, req, w) ==
    LET b == SubScores(t, req, w) IN
    [distance |-> b.distance, preference |-> b.preference, weather |-> b.weather,
     time |-> b.time, feedback |-> b.feedback, quality |-> b.quality,
     total |-> CalculateTourScore(t, req, w)]

-----------------------------------------------------------------------------
(* Rank & Select *)

\* the orders in which the catalog may return the rows `rows`
RowOrders(rows) ==
    { s \in [1 .. Cardinality(rows) -> rows] : { s[i] : i \in DOMAIN s } = rows }

ScoredTour(t, req, w) ==
    [id |-> t.id, score |-> CalculateTourScore(t, req, w), parts |-> SubScores(t, req, w)]

\* list.sort(key=score, reverse=True) is stable: x goes after every entry
\* whose score is at least its own
InsertRanked(sorted, x) ==
    LET k == Cardinality({ i \in DOMAIN sorted : sorted[i].score >= x.score })
    IN SubSeq(sorted, 1, k) \o << x >> \o SubSeq(sorted, k + 1, Len(sorted))

RECURSIVE SortByScore(_, _)
SortByScore(s, n) ==
    IF n = 0 THEN << >> ELSE InsertRanked(SortByScore(s, n - 1), s[n])

RankTours(order, req, w) ==
    SortByScore([i \in DOMAIN order |-> ScoredTour(order[i], req, w)], Len(order))

TakeFirst(s, n) == SubSeq(s, 1, Min(n, Len(s)))

SelectToursUnbounded(rankedTours, limit) == rankedTours

SelectTours(rankedTours, limit) == TakeFirst(rankedTours, limit)

-----------------------------------------------------------------------------
(* Reason Generator and its cache *)

ReasonCacheTtl == 1800

NoReason == [kind |-> None, n |-> 0]
FallbackNoKey == [kind |-> "Recommended based on your preferences and current context.", n |-> 0]
FallbackError == [kind |-> "This tour is a great fit based on your location and preferences.", n |-> 0]
Generated(n) == [kind |-> "generated", n |-> n]

EmptyCache == [k \in {} |-> NoReason]

TourRow(rows, id) == CHOOSE t \in rows : t.id = id

RequestData(req) ==
    [lat |-> req.lat, lon |-> req.lon, hour |-> req.hour, month |-> req.month,
     preferences |-> req.preferences]

\* cache_manager.generate_key over the arguments of the cached function
GenerateKey(tour, request_data, context, key) == << tour, request_data, context, key >>

\* CacheManager.get with the expiry test reversed
CacheGetExpired(c, k, t) ==
    IF k \in DOMAIN c /\ c[k].expiry < t THEN c[k].value ELSE NoReason

\* CacheManager.get, memory cache: the live value under k, NoReason if none
CacheGet(c, k, t) ==
    IF k \in DOMAIN c /\ c[k].expiry > t THEN c[k].value ELSE NoReason

\* the memory cache after CacheManager.get: an expired entry is deleted
CacheAfterGet(c, k, t) ==
    IF k \in DOMAIN c /\ ~(c[k].expiry > t)
    THEN [j \in DOMAIN c \ {k} |-> c[j]]
    ELSE c

\* CacheManager.set rebuilding the store around the new entry alone
CacheSetAlone(c, k, value, ttl, t) ==
    [j \in {k} |-> [value |-> value, expiry |-> t + ttl]]

CacheSet(c, k, value, ttl, t) ==
    [j \in DOMAIN c \cup {k} |-> IF j = k THEN [value |-> value, expiry |-> t + ttl] ELSE c[j]]

CredentialConfiguredAlways(key) == TRUE

\* `if not openai_api_key:` decides whether the generator is called at all
CredentialConfigured(key) == key

\* marks an exception leaving the reason function
ReasonRaised == [kind |-> "raise", n |-> 0]

\* the generator's exception is left to propagate
GeneratorFailureRaises == ReasonRaised

\* the except clause around the generator call returns the fallback string
GeneratorFailure == FallbackError

\* _generate_recommendation_reason_cached: its result and where it came from;
\* ok is the outcome of the generator call, n the calls made before
ReasonFunction(key, ok, n) ==
    IF ~CredentialConfigured(key) THEN [reason |-> FallbackNoKey, source |-> "no_key"]
    ELSE IF ok THEN [reason |-> Generated(n + 1), source |-> "generator"]
    ELSE [reason |-> GeneratorFailure, source |-> "generator_failed"]

GenInvoked(source) == source \in {"generator", "generator_failed"}

\* the wrapper storing only results that came from a successful generation
CachedCallSkipFailures(c, k, t, key, ok, n) ==
    LET hit == CacheGet(c, k, t) IN
    IF hit # NoReason
    THEN [reason |-> hit, source |-> "cache", cache |-> CacheAfterGet(c, k, t)]
    ELSE LET r == ReasonFunction(key, ok, n) IN
         [reason |-> r.reason, source |-> r.source,
          cache |-> IF r.source = "generator_failed"
                    THEN CacheAfterGet(c, k, t)
                    ELSE CacheSet(CacheAfterGet(c, k, t), k, r.reason, ReasonCacheTtl, t)]

\* the cached() wrapper run without interruption: get, then on a miss call
\* the function and set
CachedCall(c, k, t, key, ok, n) ==
    LET hit == CacheGet(c, k, t) IN
    IF hit # NoReason
    THEN [reason |-> hit, source |-> "cache", cache |-> CacheAfterGet(c, k, t)]
    ELSE LET r == ReasonFunction(key, ok, n) IN
         [reason |-> r.reason, source |-> r.source,
          cache |-> IF r.reason = ReasonRaised
                    THEN CacheAfterGet(c, k, t)
                    ELSE CacheSet(CacheAfterGet(c, k, t), k, r.reason, ReasonCacheTtl, t)]

CallRecord(k, t, r) == [key |-> k, at |-> t, reason |-> r.reason, source |-> r.source]

\* callers of the cached function that may be in flight together
NumCallers == 2
Callers == 1 .. NumCallers
Idle == [pc |-> "idle", key |-> None, reason |-> NoReason, source |-> None]

-----------------------------------------------------------------------------
(* State *)

NoContext == [weather |-> NoWeather, time_of_day |-> None, season |-> None]
NoResponse == [status |-> 0, recommendations |-> << >>, context |-> NoContext]
Http500 == [status |-> 500, recommendations |-> << >>, context |-> NoContext]
Http200(recommendations, context) ==
    [status |-> 200, recommendations |-> recommendations, context |-> context]

NoBreakdown ==
    [distance |-> 0, preference |-> 0, weather |-> 0, time |-> 0, feedback |-> 0,
     quality |-> 0, total |-> 0]

Start(req, rows, key) ==
    /\ request = req
    /\ catalog = rows
    /\ apiKey = key
    /\ ctx = NoContext
    /\ queried = << >>
    /\ outcome = [k \in 1 .. 3 |-> "none"]
    /\ winner = 0
    /\ candidates = {}
    /\ rankQueried = FALSE
    /\ ranked = << >>
    /\ finalTours = << >>
    /\ recs = << >>
    /\ genCalls = 0
    /\ cache = EmptyCache
    /\ calls = << >>
    /\ proc = [p \in Callers |-> Idle]
    /\ now = 0
    /\ raised = "none"
    /\ response = NoResponse
    /\ breakdown = NoBreakdown

Init ==
    /\ pc = "derive"
    /\ \E req \in Requests, rows \in SUBSET Universe, key \in BOOLEAN : Start(req, rows, key)

\* an exception leaves get_smart_recommendations: the handler answers 500
Raise(origin) ==
    /\ raised' = origin
    /\ response' = Http500
    /\ pc' = "done"

-----------------------------------------------------------------------------
(* get_smart_recommendations, step 1: _derive_context *)

WeatherOutcomes == Conditions \cup {"fail"}

DeriveContext ==
    /\ pc = "derive"
    /\ IF HasLocation(request)
       THEN \E w \in WeatherOutcomes :
              IF w = "fail"
              THEN Raise("weather") /\ UNCHANGED ctx
              ELSE /\ ctx' = DerivedContext(request, [present |-> TRUE, condition |-> w])
                   /\ pc' = "tier1"
                   /\ UNCHANGED << raised, response >>
       ELSE /\ ctx' = DerivedContext(request, NoWeather)
            /\ pc' = "tier1"
            /\ UNCHANGED << raised, response >>
    /\ UNCHANGED << request, catalog, apiKey, queried, outcome, winner, candidates,
                    rankQueried, ranked, finalTours, recs, genCalls, cache, calls, proc, now,
                    breakdown >>

-----------------------------------------------------------------------------
(* step 2: _get_candidate_tours *)

\* `if result_k:` the tier's rows are returned when there is at least one
TierWinsAlways(rows) == TRUE

TierWins(rows) == rows # {}

\* the except clause of tier k logs the error and falls through
OnTierErrorRaise(next) == "raise"

OnTierError(next) == next

RunTier(k, next) ==
    /\ queried' = Append(queried, k)
    /\ \E ok \in BOOLEAN :
         IF ok
         THEN LET rows == TierRows(k, catalog, request, ctx) IN
              IF TierWins(rows)
              THEN /\ outcome' = [outcome EXCEPT ![k] = IF rows # {} THEN "rows" ELSE "empty"]
                   /\ winner' = k
                   /\ candidates' = rows
                   /\ pc' = "selected"
                   /\ UNCHANGED << raised, response >>
              ELSE /\ outcome' = [outcome EXCEPT ![k] = IF rows # {} THEN "rows" ELSE "empty"]
                   /\ pc' = next
                   /\ UNCHANGED << winner, candidates, raised, response >>
         ELSE /\ outcome' = [outcome EXCEPT ![k] = "error"]
              /\ IF OnTierError(next) = "raise"
                 THEN Raise("selector")
                 ELSE pc' = OnTierError(next) /\ UNCHANGED << raised, response >>
              /\ UNCHANGED << winner, candidates >>

SkipTier(next) ==
    /\ pc' = next
    /\ UNCHANGED << queried, outcome, winner, candidates, raised, response >>

SelectorFrame ==
    UNCHANGED << request, catalog, apiKey, ctx, rankQueried, ranked, finalTours, recs,
                 genCalls, cache, calls, proc, now, breakdown >>

Tier1 ==
    /\ pc = "tier1"
    /\ RunTier(1, "tier2")
    /\ SelectorFrame

Tier2 ==
    /\ pc = "tier2"
    /\ IF HasLocation(request) THEN RunTier(2, "tier3") ELSE SkipTier("tier3")
    /\ SelectorFrame

Tier3 ==
    /\ pc = "tier3"
    /\ IF HasLocation(request) THEN RunTier(3, "selected") ELSE SkipTier("selected")
    /\ SelectorFrame

\* the response returned when there are no candidates
EmptyRecommendationsNoContext(context) == Http200(<< >>, NoContext)

EmptyRecommendations(context) == Http200(<< >>, context)

\* `if not candidate_ids:` the empty response, else on to ranking
AfterSelection ==
    /\ pc = "selected"
    /\ IF candidates = {}
       THEN /\ response' = EmptyRecommendations(ctx)
            /\ pc' = "done"
       ELSE /\ pc' = "rank"
            /\ UNCHANGED response
    /\ UNCHANGED << request, catalog, apiKey, ctx, queried, outcome, winner, candidates,
                    rankQueried, ranked, finalTours, recs, genCalls, cache, calls, proc, now,
                    raised, breakdown >>

-----------------------------------------------------------------------------
(* step 3: _rank_and_select_tours *)

\* rows of the ranking query: WHERE id IN tour_ids
RankingRows(rows, ids) == { t \in rows : t.id \in ids }

Rank ==
    /\ pc = "rank"
    /\ IF candidates = {}
       THEN /\ pc' = "reasons"
            /\ UNCHANGED << rankQueried, ranked, finalTours, raised, response >>
       ELSE /\ rankQueried' = TRUE
            /\ \E ok \in BOOLEAN :
                 IF ok
                 THEN IF \E t \in RankingRows(catalog, candidates) : ScoringRaises(t)
                      THEN /\ Raise("scoring")
                           /\ UNCHANGED << ranked, finalTours >>
                      ELSE \E order \in RowOrders(RankingRows(catalog, candidates)) :
                             /\ ranked' = RankTours(order, request, ctx.weather)
                             /\ finalTours' = SelectTours(ranked', request.limit)
                             /\ pc' = "reasons"
                             /\ UNCHANGED << raised, response >>
                 ELSE /\ Raise("ranking")
                      /\ UNCHANGED << ranked, finalTours >>
    /\ UNCHANGED << request, catalog, apiKey, ctx, queried, outcome, winner, candidates,
                    recs, genCalls, cache, calls, proc, now, breakdown >>

-----------------------------------------------------------------------------
(* step 4: _generate_recommendation_reason for the next selected tour,      *)
(* through the cached() wrapper                                             *)

GenerateReason ==
    /\ pc = "reasons"
    /\ Len(recs) < Len(finalTours)
    /\ \E ok \in BOOLEAN :
         LET tour == finalTours[Len(recs) + 1]
             key == GenerateKey(TourRow(catalog, tour.id), RequestData(request), ctx, apiKey)
             r == CachedCall(cache, key, now, apiKey, ok, genCalls)
         IN /\ genCalls' = IF GenInvoked(r.source) THEN genCalls + 1 ELSE genCalls
            /\ cache' = r.cache
            /\ IF r.reason = ReasonRaised
               THEN /\ Raise("reason")
                    /\ UNCHANGED recs
               ELSE /\ recs' = Append(recs, [id |-> tour.id, recommendation_reason |-> r.reason])
                    /\ UNCHANGED << pc, raised, response >>
    /\ UNCHANGED << request, catalog, apiKey, ctx, queried, outcome, winner,
                    candidates, rankQueried, ranked, finalTours, calls, proc, now,
                    breakdown >>

Respond ==
    /\ pc = "reasons"
    /\ Len(recs) = Len(finalTours)
    /\ response' = Http200(recs, ctx)
    /\ pc' = "done"
    /\ UNCHANGED << request, catalog, apiKey, ctx, queried, outcome, winner, candidates,
                    rankQueried, ranked, finalTours, recs, genCalls, cache, calls, proc, now, raised,
                    breakdown >>

Next ==
    \/ DeriveContext
    \/ Tier1
    \/ Tier2
    \/ Tier3
    \/ AfterSelection
    \/ Rank
    \/ GenerateReason
    \/ Respond

Spec == Init /\ [][Next]_vars

-----------------------------------------------------------------------------
(* Context derivation over every hour and month *)

DeriveRequests ==
    { [lat |-> l.lat, lon |-> l.lon, hour |-> h, month |-> m,
       preferences |-> NoPrefs, feedback |-> NoFeedback, limit |-> 1] :
        l \in LocSet, h \in 0 .. 23, m \in 1 .. 12 }

InitDerive ==
    /\ pc = "derive"
    /\ \E req \in DeriveRequests : Start(req, Universe, FALSE)

SpecDerive == InitDerive /\ [][Next]_vars

-----------------------------------------------------------------------------
(* _calculate_tour_score on one tour *)

DistSamples ==
    {0, 3000, 5000, 5001, 8000, 10000, 10001, 15000, 20000, 20001, 40000, 50000,
     50001, 80000}

ScoreTours ==
    { [id |-> i, dist |-> d, tour_type |-> ty, time_of_day_trip_type |-> tod,
       category_name |-> "museum", pricing_range_usd |-> "0-50 USD",
       season |-> {}, rating |-> r] :
        i \in {1, 3}, d \in DistSamples, ty \in TourTypes \cup {"virtual"},
        tod \in {{}, {"morning"}, {"night", "evening"}, {"sunrise"}}, r \in {0, 45} }

ScoreRequests ==
    { [lat |-> l.lat, lon |-> l.lon, hour |-> h, month |-> 5,
       preferences |-> p, feedback |-> f, limit |-> 1] :
        l \in LocSet, h \in {4, 5}, p \in PrefsSet \cup {AllPrefs}, f \in FeedbackSet }

InitScore ==
    /\ pc = "score"
    /\ \E req \in ScoreRequests, t \in ScoreTours : Start(req, {t}, FALSE)

ScoreTour ==
    /\ pc = "score"
    /\ \E t \in catalog, w \in { [present |-> TRUE, condition |-> c] : c \in Conditions }
                             \cup {NoWeather} :
         /\ w.present => HasLocation(request)
         /\ ctx' = DerivedContext(request, w)
         /\ breakdown' = Breakdown(t, request, w)
    /\ pc' = "scored"
    /\ UNCHANGED << request, catalog, apiKey, queried, outcome, winner, candidates,
                    rankQueried, ranked, finalTours, recs, genCalls, cache, calls, proc, now,
                    raised, response >>

SpecScore == InitScore /\ [][ScoreTour]_vars

-----------------------------------------------------------------------------
(* Ranking of tours near the user: a catalog whose rows score close to one  *)
(* another, one of them with a NULL rating (rating -1)                      *)

RankTable ==
    << [id |-> 1, dist |-> 3000, tour_type |-> "indoor",
        time_of_day_trip_type |-> {"morning", "afternoon"},
        category_name |-> "museum", pricing_range_usd |-> "0-50 USD",
        season |-> {"Winter"}, rating |-> 45],
       [id |-> 2, dist |-> 8000, tour_type |-> "outdoor",
        time_of_day_trip_type |-> {"afternoon"},
        category_name |-> "nature", pricing_range_usd |-> "50-100 USD",
        season |-> {"Summer"}, rating |-> 0],
       [id |-> 3, dist |-> 3000, tour_type |-> "outdoor",
        time_of_day_trip_type |-> {},
        category_name |-> "nature", pricing_range_usd |-> "50-100 USD",
        season |-> {"Summer"}, rating |-> 0],
       [id |-> 4, dist |-> 6000, tour_type |-> "both",
        time_of_day_trip_type |-> {"morning", "night"},
        category_name |-> "museum", pricing_range_usd |-> "0-50 USD",
        season |-> {}, rating |-> 0 - 1],
       [id |-> 5, dist |-> 15000, tour_type |-> "both",
        time_of_day_trip_type |-> {"morning", "afternoon", "night"},
        category_name |-> "museum", pricing_range_usd |-> "0-50 USD",
        season |-> {"Summer", "Winter"}, rating |-> 45] >>

RankUniverse ==
    { RankTable[i] : i \in 1 .. (IF MaxTours < Len(RankTable) THEN MaxTours
                                                              ELSE Len(RankTable)) }

RankRequests ==
    { [lat |-> "given", lon |-> "given", hour |-> h, month |-> 5,
       preferences |-> p, feedback |-> f, limit |-> n] :
        h \in PipelineHours, p \in {NoPrefs, AllPrefs}, f \in FeedbackSet,
        n \in 1 .. MaxLimit }

InitRank ==
    /\ pc = "derive"
    /\ \E req \in RankRequests, rows \in SUBSET RankUniverse : Start(req, rows, TRUE)

SpecRank == InitRank /\ [][Next]_vars

-----------------------------------------------------------------------------
(* _generate_recommendation_reason called repeatedly in one process, one     *)
(* call after the other, while time passes                                   *)

MaxCalls == 3
MaxTicks == 2

\* seconds that pass between two calls: half the cache TTL
TickStep == ReasonCacheTtl \div 2

ReasonTours == { TourTable[1], TourTable[2] }

ReasonRequest ==
    [lat |-> "given", lon |-> "given", hour |-> 11, month |-> 5,
     preferences |-> NoPrefs, feedback |-> NoFeedback, limit |-> 1]

ReasonContexts ==
    { DerivedContext(ReasonRequest, [present |-> TRUE, condition |-> c]) :
        c \in {"Rain", "Clear"} }

InitReason ==
    /\ pc = "calls"
    /\ \E key \in BOOLEAN : Start(ReasonRequest, ReasonTours, key)

\* one call of the cached reason function, run to completion
ReasonCall ==
    /\ pc = "calls"
    /\ Len(calls) < MaxCalls
    /\ \E tour \in catalog, c \in ReasonContexts, ok \in BOOLEAN :
         LET key == GenerateKey(tour, RequestData(request), c, apiKey)
             r == CachedCall(cache, key, now, apiKey, ok, genCalls)
         IN /\ genCalls' = IF GenInvoked(r.source) THEN genCalls + 1 ELSE genCalls
            /\ cache' = r.cache
            /\ calls' = Append(calls, CallRecord(key, now, r))
    /\ UNCHANGED << request, catalog, apiKey, pc, ctx, queried, outcome, winner,
                    candidates, rankQueried, ranked, finalTours, recs, proc, now,
                    raised, response, breakdown >>

\* time.time() advances between calls
Tick ==
    /\ pc = "calls"
    /\ now < MaxTicks * TickStep
    /\ now' = now + TickStep
    /\ UNCHANGED << request, catalog, apiKey, pc, ctx, queried, outcome, winner,
                    candidates, rankQueried, ranked, finalTours, recs, genCalls,
                    cache, calls, proc, raised, response, breakdown >>

NextReason ==
    \/ ReasonCall
    \/ Tick

SpecReason == InitReason /\ [][NextReason]_vars

-----------------------------------------------------------------------------
(* The cached() wrapper entered by several requests at once: get, the call   *)
(* of the wrapped function and set are separate steps of each caller         *)

InitCache ==
    /\ pc = "callers"
    /\ \E key \in BOOLEAN : Start(ReasonRequest, ReasonTours, key)

CacheFrame ==
    UNCHANGED << request, catalog, apiKey, pc, ctx, queried, outcome, winner,
                 candidates, rankQueried, ranked, finalTours, recs, now, raised,
                 response, breakdown >>

\* wrapper entry: the cache key is computed from the arguments
Begin(p) ==
    /\ pc = "callers"
    /\ proc[p].pc = "idle"
    /\ \E tour \in catalog :
         proc' = [proc EXCEPT ![p] =
                    [pc |-> "get", reason |-> NoReason, source |-> None,
                     key |-> GenerateKey(tour, RequestData(request),
                                         DerivedContext(request, NoWeather), apiKey)]]
    /\ UNCHANGED << genCalls, cache, calls >>
    /\ CacheFrame

\* cached_result = await cache_manager.get(cache_key); a hit is returned
Get(p) ==
    /\ pc = "callers"
    /\ proc[p].pc = "get"
    /\ LET hit == CacheGet(cache, proc[p].key, now) IN
         /\ cache' = CacheAfterGet(cache, proc[p].key, now)
         /\ IF hit # NoReason
            THEN /\ proc' = [proc EXCEPT ![p] = [@ EXCEPT !.pc = "done", !.reason = hit,
                                                          !.source = "cache"]]
                 /\ calls' = Append(calls, CallRecord(proc[p].key, now,
                                                      [reason |-> hit, source |-> "cache"]))
            ELSE /\ proc' = [proc EXCEPT ![p] = [@ EXCEPT !.pc = "gen"]]
                 /\ UNCHANGED calls
    /\ UNCHANGED genCalls
    /\ CacheFrame

\* result = await func(*args, **kwargs)
Gen(p) ==
    /\ pc = "callers"
    /\ proc[p].pc = "gen"
    /\ \E ok \in BOOLEAN :
         LET r == ReasonFunction(apiKey, ok, genCalls) IN
         /\ r.source = "no_key" => ok
         /\ genCalls' = IF GenInvoked(r.source) THEN genCalls + 1 ELSE genCalls
         /\ proc' = [proc EXCEPT ![p] = [@ EXCEPT !.pc = "set", !.reason = r.reason,
                                                   !.source = r.source]]
    /\ UNCHANGED << cache, calls >>
    /\ CacheFrame

\* await cache_manager.set(cache_key, result, ttl); return result
Set(p) ==
    /\ pc = "callers"
    /\ proc[p].pc = "set"
    /\ cache' = CacheSet(cache, proc[p].key, proc[p].reason, ReasonCacheTtl, now)
    /\ proc' = [proc EXCEPT ![p] = [@ EXCEPT !.pc = "done"]]
    /\ calls' = Append(calls, CallRecord(proc[p].key, now, proc[p]))
    /\ UNCHANGED genCalls
    /\ CacheFrame

NextCache ==
    \E p \in Callers :
        \/ Begin(p)
        \/ Get(p)
        \/ Gen(p)
        \/ Set(p)

SpecCache == InitCache /\ [][NextCache]_vars

-----------------------------------------------------------------------------
(* The pipeline at every hour of the day, on the whole catalog *)

HourRequests ==
    { [lat |-> l.lat, lon |-> l.lon, hour |-> h, month |-> 5,
       preferences |-> p, feedback |-> f, limit |-> MaxLimit] :
        l \in { [lat |-> "given", lon |-> "given"], [lat |-> None, lon |-> None] },
        h \in 0 .. 23, p \in {NoPrefs, AllPrefs},
        f \in { NoFeedback,
                [given |-> TRUE, liked_tours |-> {}, disliked_tours |-> {2}] } }

InitHours ==
    /\ pc = "derive"
    /\ \E req \in HourRequests : Start(req, Universe, FALSE)

SpecHours == InitHours /\ [][Next]_vars

-----------------------------------------------------------------------------
(* Properties *)

SelectionOver == pc \in {"selected", "rank", "reasons", "done"} /\ raised # "weather"

Disliked == request.feedback.disliked_tours

RecIds(rs) == { rs[i].id : i \in DOMAIN rs }

\* C1: for every request limit and catalog, the list of recommendations
\* (selected, built and returned) is never longer than the limit.
C1_LengthAtMostLimit ==
    /\ Len(finalTours) <= request.limit
    /\ Len(recs) <= request.limit
    /\ Len(response.recommendations) <= request.limit

C1_Witness ==
    /\ pc = "done"
    /\ response.status = 200
    /\ Cardinality(candidates) > request.limit
    /\ Len(response.recommendations) = request.limit

\* C2: when tier 1 or tier 2 supplied the candidates, no disliked tour id is
\* a candidate, is selected, or is returned.
C2_NoDislikedFromTier1Or2 ==
    winner \in {1, 2} =>
        /\ candidates \cap Disliked = {}
        /\ RecIds(finalTours) \cap Disliked = {}
        /\ RecIds(recs) \cap Disliked = {}
        /\ RecIds(response.recommendations) \cap Disliked = {}

C2_Witness ==
    /\ pc = "done"
    /\ winner \in {1, 2}
    /\ response.recommendations # << >>
    /\ \E t \in catalog :
         /\ t.id \in Disliked
         /\ BuildDistanceQuery(t, Tier1RadiusKm)
         /\ ctx.time_of_day \in t.time_of_day_trip_type
         /\ PreferencesFilter(request.preferences, t)
         /\ ctx.weather.present => WeatherFilter(ctx.weather.condition, t)

\* C3: tiers are queried in the order 1, 2, 3; a tier is queried only after
\* every earlier tier returned zero rows or failed; the first tier that
\* returns at least one row wins, its rows are the candidate set, and no
\* later tier is queried.
C3_FirstNonEmptyTierWins ==
    /\ queried \in { << >>, << 1 >>, << 1, 2 >>, << 1, 2, 3 >> }
    /\ \A i \in DOMAIN queried : \A j \in 1 .. (queried[i] - 1) :
         outcome[j] \in {"empty", "error"}
    /\ \A k \in 1 .. 3 : outcome[k] = "rows" <=> winner = k
    /\ \A k \in 1 .. 3 : outcome[k] # "none" <=> (\E i \in DOMAIN queried : queried[i] = k)
    /\ winner # 0 =>
         /\ candidates = TierRows(winner, catalog, request, ctx)
         /\ candidates # {}
         /\ queried[Len(queried)] = winner
    /\ winner = 0 => candidates = {}

C3_Witness ==
    /\ pc = "done"
    /\ winner = 2
    /\ queried = << 1, 2 >>
    /\ outcome[1] = "empty"
    /\ response.recommendations # << >>

\* C4 (as stated): without a location every tier is still evaluated, so a
\* selection that no tier won has queried tiers 1, 2 and 3.
C4_EveryTierEvaluatedWithoutLocation ==
    (~HasLocation(request) /\ SelectionOver /\ winner = 0) => queried = << 1, 2, 3 >>

\* C4 (amended): without a location tier 1 is evaluated with the radius
\* filter omitted and its other filters unchanged, and tiers 2 and 3 are
\* skipped: the selection ends after tier 1.
C4_OnlyTier1WithoutLocation ==
    ~HasLocation(request) =>
        /\ outcome[2] = "none" /\ outcome[3] = "none"
        /\ SelectionOver => queried = << 1 >>
        /\ outcome[1] = "rows" =>
             candidates = Ids({ t \in catalog : ContextFilters(t, request, ctx) })
        /\ outcome[1] = "empty" =>
             { t \in catalog : ContextFilters(t, request, ctx) } = {}

C4_Witness ==
    /\ pc = "done"
    /\ ~HasLocation(request)
    /\ winner = 1
    /\ \E t \in catalog :
         /\ t.id \in RecIds(response.recommendations)
         /\ ~BuildDistanceQuery(t, Tier2RadiusKm)

\* rows of tier k as the selector sees them: none when the query failed
EffectiveRows(k) ==
    IF outcome[k] = "error" THEN {} ELSE TierRows(k, catalog, request, ctx)

\* C5: a query error at a tier is caught and counts as zero rows for that
\* tier: the selector never raises, and its result is the one it would give
\* had every failed tier returned no row, so a later tier still supplies
\* the candidates.
C5_TierErrorIsZeroRows ==
    /\ raised # "selector"
    /\ \A k \in 1 .. 3 : outcome[k] = "error" => winner # k
    /\ (outcome[1] = "error" /\ HasLocation(request) /\ pc # "tier2") => outcome[2] # "none"
    /\ (outcome[2] = "error" /\ pc # "tier3") => outcome[3] # "none"
    /\ SelectionOver =>
         candidates =
            IF EffectiveRows(1) # {} THEN EffectiveRows(1)
            ELSE IF ~HasLocation(request) THEN {}
            ELSE IF EffectiveRows(2) # {} THEN EffectiveRows(2)
            ELSE EffectiveRows(3)

C5_Witness ==
    /\ pc = "done"
    /\ outcome[1] = "error"
    /\ TierRows(1, catalog, request, ctx) # {}
    /\ winner = 2
    /\ response.recommendations # << >>

\* C6: when every tier yields zero rows or fails, the selector returns an
\* empty list without raising and the request returns an empty
\* recommendation list with the derived context; the ranking query and the
\* text generator are not called.
C6_EmptySelectionReturnsEmpty ==
    (SelectionOver /\ winner = 0) =>
        /\ candidates = {}
        /\ raised = "none"
        /\ ~rankQueried
        /\ genCalls = 0
        /\ recs = << >>
        /\ pc \in {"selected", "done"}
        /\ pc = "done" =>
             response = Http200(<< >>, DerivedContext(request, ctx.weather))

C6_Witness ==
    /\ pc = "done"
    /\ winner = 0
    /\ outcome[1] = "empty"
    /\ outcome[2] = "error"
    /\ outcome[3] = "error"
    /\ response.status = 200

\* C7 (as stated): a failure of the weather collaborator does not propagate:
\* no request ends with the weather exception and a 500 response.
C7_WeatherFailureDoesNotPropagate ==
    ~(raised = "weather" /\ response.status = 500)

\* the bucket table of the claim, by hour
BucketTable(h) ==
    CASE h \in 5 .. 11 -> "morning"
      [] h \in 12 .. 16 -> "afternoon"
      [] h \in 17 .. 20 -> "evening"
      [] OTHER -> "night"

\* C8: for every hour 0..23 the derived time-of-day bucket is morning for
\* 5..11, afternoon for 12..16, evening for 17..20 and night otherwise.
C8_TimeBucket ==
    (pc # "derive" /\ raised # "weather") =>
        /\ ctx.time_of_day \in TimesOfDay
        /\ ctx.time_of_day = BucketTable(request.hour)
        /\ request.hour \in {4, 21} => ctx.time_of_day = "night"
        /\ request.hour \in {5, 11} => ctx.time_of_day = "morning"
        /\ request.hour = 12 => ctx.time_of_day = "afternoon"

C8_Witness ==
    /\ pc = "tier1"
    /\ request.hour = 5
    /\ ctx.time_of_day = "morning"

SeasonTable(m) ==
    CASE m \in {12, 1, 2} -> "Winter"
      [] m \in {3, 4, 5} -> "Spring"
      [] m \in {6, 7, 8} -> "Summer"
      [] m \in {9, 10, 11} -> "Autumn"

\* C9: the derived season follows the month table, and the season is never
\* matched against a tour's season list: the rows of every tier, and the
\* candidate set, are the same under the season of any other month.
C9_SeasonDerivedNotFiltered ==
    (pc # "derive" /\ raised # "weather") =>
        /\ ctx.season = SeasonTable(request.month)
        /\ \A m \in 1 .. 12 :
             LET other == [ctx EXCEPT !.season = SeasonOf(m)] IN
             /\ \A k \in 1 .. 3 :
                  TierRows(k, catalog, request, other) = TierRows(k, catalog, request, ctx)
             /\ winner # 0 => candidates = TierRows(winner, catalog, request, other)

C9_Witness ==
    /\ pc = "done"
    /\ request.month = 5
    /\ ctx.season = "Spring"
    /\ winner = 1
    /\ \E t \in catalog : t.id \in candidates /\ "Spring" \notin t.season

\* the distance table of the claim, by meters
DistanceTable(d) ==
    CASE d \in 0 .. 5000 -> 25
      [] d \in 5001 .. 10000 -> 20
      [] d \in 10001 .. 20000 -> 15
      [] d \in 20001 .. 50000 -> 10
      [] OTHER -> 5

ScoredTourRow == CHOOSE t \in catalog : TRUE

\* C10: with a user location the distance sub-score is 25, 20, 15, 10, 5 by
\* the breakpoints 5, 10, 20, 50 km, non-increasing in the distance; without
\* a location it is 0.
C10_DistanceScore ==
    pc = "scored" =>
        /\ HasLocation(request) => breakdown.distance = DistanceTable(ScoredTourRow.dist)
        /\ ~HasLocation(request) => breakdown.distance = 0
        /\ \A d \in DistSamples :
             d >= ScoredTourRow.dist =>
               DistanceScore([ScoredTourRow EXCEPT !.dist = d], request) <= breakdown.distance

C10_Witness ==
    /\ pc = "scored"
    /\ HasLocation(request)
    /\ ScoredTourRow.dist = 10000
    /\ breakdown.distance = 20

RankingDone == pc \in {"reasons", "done"} /\ rankQueried /\ raised = "none"

\* C12 (as stated): the ranked tours are in non-increasing score order with
\* equal scores in ascending tour id order, and the selection is the first
\* `limit` of them, whatever order the catalog returned the rows in.
C12_TiesByAscendingId ==
    RankingDone =>
        /\ \A i, j \in DOMAIN ranked :
             i < j => \/ ranked[i].score > ranked[j].score
                      \/ /\ ranked[i].score = ranked[j].score
                         /\ ranked[i].id < ranked[j].id
        /\ finalTours = TakeFirst(ranked, request.limit)

\* C13: without a credential every call of the reason function returns the
\* fixed fallback string and the external generator is never invoked.
C13_NoCredentialNoGenerator ==
    ~apiKey =>
        /\ genCalls = 0
        /\ \A i \in DOMAIN calls :
             /\ calls[i].reason = FallbackNoKey
             /\ ~GenInvoked(calls[i].source)

C13_Witness ==
    /\ ~apiKey
    /\ Len(calls) >= 2
    /\ calls[1].key # calls[2].key
    /\ calls[1].reason = FallbackNoKey
    /\ calls[2].reason = FallbackNoKey

\* C15: of two calls with the same arguments, the second made before the
\* first call's entry is 1800 seconds old, the second returns the string the
\* first returned, is served from the cache and makes no generator call; with
\* a credential the first, when it missed the cache, made exactly one.
C15_SecondCallServedFromCache ==
    \A i, j \in DOMAIN calls :
        (/\ i < j
         /\ calls[i].key = calls[j].key
         /\ calls[i].source # "cache"
         /\ calls[j].at < calls[i].at + 1800)
        => /\ calls[j].reason = calls[i].reason
           /\ calls[j].source = "cache"
           /\ apiKey => GenInvoked(calls[i].source)
           /\ Cardinality({ n \in i .. j : GenInvoked(calls[n].source)
                                           /\ calls[n].key = calls[i].key })
                = IF apiKey THEN 1 ELSE 0

C15_Witness ==
    /\ apiKey
    /\ Len(calls) >= 2
    /\ calls[1].key = calls[2].key
    /\ calls[1].source = "generator"
    /\ calls[2].at = calls[1].at + 900
    /\ calls[2].source = "cache"
    /\ calls[2].reason = calls[1].reason
    /\ genCalls = 1

\* C14: with a credential the generator is called once for every selected
\* tour; a call that fails yields the fixed fallback string instead of an
\* exception, and the tour is in the response with that string as its reason.
C14_GeneratorFailureFallsBack ==
    /\ raised # "reason"
    /\ (apiKey /\ pc \in {"reasons", "done"} /\ raised = "none") =>
          /\ genCalls = Len(recs)
          /\ \A i \in DOMAIN recs :
               /\ recs[i].id = finalTours[i].id
               /\ recs[i].recommendation_reason \in {Generated(i), FallbackError}
    /\ (apiKey /\ pc = "done" /\ response.status = 200) =>
          /\ Len(response.recommendations) = Len(finalTours)
          /\ response.recommendations = recs

C14_Witness ==
    /\ apiKey
    /\ pc = "done"
    /\ response.status = 200
    /\ Len(response.recommendations) = 2
    /\ response.recommendations[1].recommendation_reason = FallbackError
    /\ response.recommendations[2].recommendation_reason = Generated(2)
    /\ genCalls = 2

\* completed calls under key k that ran the wrapped function and set the entry
MissCalls(k) == { i \in DOMAIN calls : calls[i].key = k /\ calls[i].source # "cache" }

LastOf(S) == CHOOSE i \in S : \A j \in S : j <= i

\* C16: for every interleaving of the callers' get, generate and set steps,
\* a call returns either what its own run of the function produced or a
\* value an earlier call under the same key stored; every key a call
\* completed under stays in the cache, mapped to the string of the last call
\* that stored under it, and the cache holds no other key.
C16_CacheSafeUnderInterleaving ==
    /\ \A i \in DOMAIN calls :
         /\ calls[i].key \in DOMAIN cache
         /\ calls[i].source = "cache" =>
              \E j \in MissCalls(calls[i].key) : j < i /\ calls[j].reason = calls[i].reason
         /\ calls[i].source # "cache" =>
              calls[i].reason \in {FallbackNoKey, FallbackError}
                                  \cup { Generated(n) : n \in 1 .. genCalls }
    /\ \A k \in DOMAIN cache :
         /\ MissCalls(k) # {}
         /\ cache[k].value = calls[LastOf(MissCalls(k))].reason

C16_Witness ==
    /\ Len(calls) >= 2
    /\ calls[1].key = calls[2].key
    /\ calls[1].source = "generator"
    /\ calls[2].source = "generator"
    /\ calls[1].reason # calls[2].reason
    /\ genCalls = 2
    /\ cache[calls[1].key].value = calls[2].reason
    /\ \A p \in Callers : proc[p].pc \in {"idle", "done"}

\* C17 (as stated): once candidates were selected and the ranking query ran,
\* a failure while scoring one tour does not fail the request: the answer is
\* a 200 response holding the selected tours.
C17_NoPartialResultDiscarded ==
    (pc = "done" /\ candidates # {} /\ raised # "ranking") =>
        /\ response.status = 200
        /\ Len(response.recommendations)
             = Min(request.limit, Cardinality(candidates))

TierRowsUnder(k, Admits(_, _)) ==
    { t.id : t \in { u \in catalog :
        /\ (k = 2 \/ HasLocation(request)) => u.dist <= (IF k = 1 THEN 10000 ELSE 30000)
        /\ ctx.weather.present => Admits(ctx.weather.condition, u.tour_type)
        /\ ctx.time_of_day \in u.time_of_day_trip_type
        /\ PreferencesFilter(request.preferences, u)
        /\ FeedbackFilter(request.feedback, u) } }

RainClearOnly(condition, type) ==
    /\ condition = "Rain" => type = "indoor"
    /\ condition = "Clear" => type \in {"outdoor", "both"}

RainClearClouds(condition, type) ==
    /\ condition = "Rain" => type = "indoor"
    /\ condition \in {"Clear", "Clouds"} => type \in {"outdoor", "both"}

\* C19 (as stated): a tier 1 or tier 2 result holds the tours passing the
\* other filters that are indoor under Rain, outdoor or both under Clear, and
\* of any type under every other condition or without weather.
C19_WeatherFilterRainClear ==
    \A k \in {1, 2} : outcome[k] \in {"rows", "empty"} =>
        (winner = k /\ candidates = TierRowsUnder(k, RainClearOnly))
        \/ (winner # k /\ TierRowsUnder(k, RainClearOnly) = {})

\* C19 (amended): as above, with Clouds constrained like Clear: outdoor or
\* both under Clear or Clouds, no constraint under any other condition or
\* without weather.
C19_WeatherFilterRainClearClouds ==
    \A k \in {1, 2} : outcome[k] \in {"rows", "empty"} =>
        (winner = k /\ candidates = TierRowsUnder(k, RainClearClouds))
        \/ (winner # k /\ TierRowsUnder(k, RainClearClouds) = {})

C19_Witness ==
    /\ ctx.weather.condition = "Clouds"
    /\ winner \in {1, 2}
    /\ pc = "done"
    /\ response.status = 200
    /\ \E t \in catalog :
         /\ t.tour_type = "indoor"
         /\ t.id \notin candidates
         /\ t.id \in TierRowsUnder(winner, RainClearOnly)

\* C20 (as stated): in a ranked result no disliked tour is ordered before a
\* tour that is not disliked.
C20_DislikedAfterEveryOther ==
    RankingDone =>
        \A i, j \in DOMAIN ranked :
            i < j => ~(ranked[i].id \in Disliked /\ ranked[j].id \notin Disliked)

\* the scored tour is on the request's disliked list
ScoredDisliked ==
    /\ request.feedback.given
    /\ ScoredTourRow.id \in request.feedback.disliked_tours

WeatherTable(condition, type) ==
    CASE condition = "Rain" ->
           (CASE type = "indoor" -> 15 [] type = "both" -> 12 [] OTHER -> 5)
      [] condition = "Clear" ->
           (CASE type = "outdoor" -> 15 [] type = "both" -> 12 [] OTHER -> 8)
      [] condition = None ->
           (CASE type = "indoor" -> 10 [] type = "outdoor" -> 8 [] type = "both" -> 12
              [] OTHER -> 5)

\* C22: the weather sub-score lies in 0..15; under Rain and under Clear it
\* follows the claim's table, and without coordinates (no weather) it is the
\* default table keyed on the tour type alone.
C22_WeatherScoreTable ==
    pc = "scored" =>
        /\ breakdown.weather \in 0 .. 15
        /\ ctx.weather.condition \in {"Rain", "Clear"} =>
             breakdown.weather = WeatherTable(ctx.weather.condition, ScoredTourRow.tour_type)
        /\ ~HasLocation(request) =>
             /\ ~ctx.weather.present
             /\ breakdown.weather = WeatherTable(None, ScoredTourRow.tour_type)

C22_Witness ==
    /\ pc = "scored"
    /\ ctx.weather.condition = "Rain"
    /\ ScoredTourRow.tour_type = "both"
    /\ breakdown.weather = 12

\* C23: the time-of-day sub-score is 15 when the tour lists the bucket of the
\* request's hour, 10 when it does not but lists one of morning, afternoon,
\* evening, night, and 5 when it lists none of the four.
C23_TimeScoreTable ==
    pc = "scored" =>
        LET listed == ScoredTourRow.time_of_day_trip_type
            bucket == BucketTable(request.hour)
        IN breakdown.time =
             (IF bucket \in listed THEN 15
              ELSE IF \E b \in {"morning", "afternoon", "evening", "night"} : b \in listed
                   THEN 10
                   ELSE 5)

C23_Witness ==
    /\ pc = "scored"
    /\ ScoredTourRow.time_of_day_trip_type = {"sunrise"}
    /\ breakdown.time = 5

\* the stated preferences of the request that the scored tour matches
MatchedPreferences ==
    LET p == request.preferences
        t == ScoredTourRow
    IN { f \in {"tour_type", "category", "price_range"} :
           /\ p.given
           /\ p[f] # None
           /\ p[f] = (CASE f = "tour_type" -> t.tour_type
                        [] f = "category" -> t.category_name
                        [] f = "price_range" -> t.pricing_range_usd) }

\* C24: the preference sub-score is 10 for each stated preference (tour type,
\* category, price tier) the tour matches, each counted on its own; it is 0
\* without preferences and at most 30.
C24_PreferenceScore ==
    pc = "scored" =>
        /\ breakdown.preference = 10 * Cardinality(MatchedPreferences)
        /\ breakdown.preference <= 30
        /\ ~request.preferences.given => breakdown.preference = 0

C24_Witness ==
    /\ pc = "scored"
    /\ Cardinality(MatchedPreferences) = 3
    /\ breakdown.preference = 30

\* the request with its liked list replaced by `liked`
WithLiked(liked) ==
    [request EXCEPT !.feedback = [given |-> TRUE, liked_tours |-> liked,
                                  disliked_tours |-> request.feedback.disliked_tours]]

C27_FailureFallbackIsCached ==
    \A i, j \in DOMAIN calls :
        (/\ i < j
         /\ calls[i].key = calls[j].key
         /\ calls[i].source = "generator_failed")
        => /\ calls[i].reason = FallbackError
           /\ calls[j].at < calls[i].at + 1800 =>
                /\ calls[j].source = "cache"
                /\ calls[j].reason = FallbackError
           /\ (/\ calls[j].at >= calls[i].at + 1800
               /\ \A m \in (i + 1) .. (j - 1) : calls[m].key # calls[i].key)
                => GenInvoked(calls[j].source)

C27_Witness ==
    /\ Len(calls) >= 3
    /\ calls[1].key = calls[2].key
    /\ calls[2].key = calls[3].key
    /\ calls[1].source = "generator_failed"
    /\ calls[2].at = calls[1].at + 900
    /\ calls[2].source = "cache"
    /\ calls[2].reason = FallbackError
    /\ calls[3].at = calls[1].at + 1800
    /\ calls[3].source = "generator"
    /\ genCalls = 2

\* the number of preferences the request states
StatedPreferences ==
    LET p == request.preferences IN
    IF p.given
    THEN Cardinality({ f \in {"tour_type", "category", "price_range"} : p[f] # None })
    ELSE 0

\* C28: for every hour 0..23 the scorer's time bucket is the time_of_day of
\* the derived context, and every tour ranked after tier 1 or tier 2
\* supplied the candidates has time sub-score 15, preference sub-score 10
\* for each stated preference and feedback sub-score 0.
C28_ScorerAgreesWithSelector ==
    /\ \A h \in 0 .. 23 : CurrentTime(h) = TimeOfDay(h)
    /\ ctx.time_of_day # None => CurrentTime(request.hour) = ctx.time_of_day
    /\ winner \in {1, 2} =>
         \A i \in DOMAIN ranked :
            /\ ranked[i].parts.time = 15
            /\ ranked[i].parts.preference = 10 * StatedPreferences
            /\ ranked[i].parts.feedback = 0

C28_Witness ==
    /\ winner \in {1, 2}
    /\ request.hour = 5
    /\ request.feedback.given
    /\ Len(ranked) >= 1
    /\ ranked[1].parts.time = 15
    /\ ranked[1].parts.preference = 30
    /\ ranked[1].parts.feedback = 0

\* the catalog row with id `id`
CatalogRow(id) == CHOOSE t \in catalog : t.id = id

Contradicts(condition, type) ==
    \/ condition = "Rain" /\ type \in {"outdoor", "both"}
    \/ condition \in {"Clear", "Clouds"} /\ type = "indoor"

\* C30: when the weather condition and the tour_type preference contradict
\* each other no tour of any type passes both filters, so tiers 1 and 2 find
\* nothing in any catalog and candidates come from tier 3 alone, which
\* returns every tour within 10 km.
C30_ContradictionLeavesTier3 ==
    /\ pc = "derive" =>
         \A condition \in Conditions, type \in TourTypes, t \in catalog, ty \in TourTypes :
            Contradicts(condition, type) =>
               ~(/\ WeatherFilter(condition, [t EXCEPT !.tour_type = ty])
                 /\ PreferencesFilter([NoPrefs EXCEPT !.given = TRUE, !.tour_type = type],
                                      [t EXCEPT !.tour_type = ty]))
    /\ (/\ ctx.weather.present
        /\ request.preferences.given
        /\ Contradicts(ctx.weather.condition, request.preferences.tour_type)) =>
           /\ winner \in {0, 3}
           /\ outcome[1] \in {"none", "empty", "error"}
           /\ outcome[2] \in {"none", "empty", "error"}
           /\ winner = 3 => candidates = { t.id : t \in { u \in catalog : u.dist <= 10000 } }

C30_Witness ==
    /\ ctx.weather.condition = "Rain"
    /\ request.preferences.tour_type = "outdoor"
    /\ outcome[1] = "empty"
    /\ outcome[2] = "empty"
    /\ winner = 3
    /\ pc = "done"
    /\ response.status = 200
    /\ \E i \in DOMAIN response.recommendations :
         CatalogRow(response.recommendations[i].id).tour_type = "indoor"
    /\ \E t \in catalog :
         /\ t.tour_type = "outdoor"
         /\ t.dist <= 10000
         /\ PreferencesFilter(request.preferences, t)
         /\ TimeFilter(ctx, t)

====
